---------------------------- MODULE Spec2Model ----------------------------
(***************************************************************************)
(* Model of the ASCII diagram toolkit: scripts/verify.py (the verifier)    *)
(* and scripts/grid.py (the grid builder).                                 *)
(*                                                                         *)
(* Conventions.  A Python string is a sequence of one-character strings;   *)
(* a text (a string that may hold newlines) is the non-empty sequence of   *)
(* lines str.split('\n') gives for it, so '\n'.join and split('\n') are    *)
(* mutually inverse here ('' is the text of one empty line).  Rows and     *)
(* columns are 1-based in the model: a code index i is i + 1 here, which   *)
(* is also the number the program prints.  A non-ASCII character is        *)
(* written by its code point, e.g. "U250C", and so is the backquote,        *)
(* "U0060".  A value that may be None is a tuple: None is <<>>, and a       *)
(* value x that is not None is the one-element tuple <<x>>.                *)
(***************************************************************************)
EXTENDS Integers, Sequences, FiniteSets, TLC

VARIABLES
    stdin,      \* verify.py: the text read from standard input
    args,       \* verify.py: parsed command line [extract, block, columns, quiet]
    pc,         \* verify.py main: position in main()
    lines,      \* verify.py main: the diagram's line list
    report,     \* verify.py main: the sections printed so far, in print order
    stderr,     \* verify.py: messages written to the error stream
    exit_code,  \* verify.py main: the exit status (None while running, or <<n>>)
    buf,        \* grid.py: the current line buffer (None, or <<the buffer>>)
    out,        \* grid.py: the lines printed to standard output so far
    errs,       \* grid.py: the warnings written to the error stream so far
    hist,       \* grid.py: the calls made so far (history, for stating properties)
    label       \* grid.py: the box_label_str calls made, with their results

vars == <<stdin, args, pc, lines, report, stderr, exit_code,
          buf, out, errs, hist, label>>

None == <<>>

\* ------------------------------------------------------------------------
\* Python string helpers
\* ------------------------------------------------------------------------

Letters ==
    {"a","b","c","d","e","f","g","h","i","j","k","l","m","n","o","p","q","r",
     "s","t","u","v","w","x","y","z","A","B","C","D","E","F","G","H","I","J",
     "K","L","M","N","O","P","Q","R","S","T","U","V","W","X","Y","Z"}

\* str.isalpha() of one character
IsAlpha(c) == c \in Letters

\* str.isspace() of one character (the model's texts hold no other blank)
IsSpace(c) == c = " "

Max2(a, b) == IF a >= b THEN a ELSE b

\* max((len(l) for l in lines), default=0)
RECURSIVE MaxLen(_)
MaxLen(ls) ==
    IF ls = <<>> THEN 0 ELSE Max2(Len(Head(ls)), MaxLen(Tail(ls)))

\* s.ljust(w): pads with spaces on the right, never truncates
Ljust(s, w) ==
    IF w <= Len(s) THEN s
    ELSE [i \in 1..w |-> IF i <= Len(s) THEN s[i] ELSE " "]

\* s.rstrip()
RECURSIVE Rstrip(_)
Rstrip(s) ==
    IF s = <<>> THEN s
    ELSE IF IsSpace(s[Len(s)]) THEN Rstrip(SubSeq(s, 1, Len(s) - 1))
    ELSE s

\* s.lstrip()
RECURSIVE Lstrip(_)
Lstrip(s) ==
    IF s = <<>> THEN s
    ELSE IF IsSpace(Head(s)) THEN Lstrip(Tail(s))
    ELSE s

\* s.strip()
Strip(s) == Lstrip(Rstrip(s))

\* s.startswith(p)
StartsWith(s, p) == Len(s) >= Len(p) /\ SubSeq(s, 1, Len(p)) = p

\* [l.ljust(width) for l in lines]
PadLines(ls) == [r \in 1..Len(ls) |-> Ljust(ls[r], MaxLen(ls))]

\* concatenation of a sequence of sequences, in order
RECURSIVE Flatten(_)
Flatten(ss) == IF ss = <<>> THEN <<>> ELSE Head(ss) \o Flatten(Tail(ss))

\* ------------------------------------------------------------------------
\* verify.py: character classes
\* ------------------------------------------------------------------------

BANNED_CHARS ==
    {"U250C","U2510","U2514","U2518","U2500","U2502","U251C","U2524","U252C",
     "U2534","U253C","U2554","U2557","U255A","U255D","U2550","U2551","U256D",
     "U256E","U2570","U256F","U25B6","U25BC","U25C0","U25B2","U25CF","U25CB",
     "U25C6","U25C7","U2192","U2190","U2191","U2193","U2194","U2195","U2501",
     "U2503","U250F","U2513","U2517","U251B","U2523","U252B","U2533","U253B",
     "U254B"}

HLINE_CHARS == {"+", "-"}

VLINE_CHARS == {"|", "^", "v"}

ARROW_CHARS == {"^", "v", "<", ">"}

CONNECTING_CHARS == {"+", "-", "|", "^", "v", "<", ">"}

\* ------------------------------------------------------------------------
\* verify.py: check_unicode
\* ------------------------------------------------------------------------

UnicodeCell(ls, row, col) ==
    IF ls[row][col] \in BANNED_CHARS
    THEN << [line |-> row, col |-> col, ch |-> ls[row][col]] >>
    ELSE <<>>

check_unicode(ls) ==
    Flatten([row \in 1..Len(ls) |->
        Flatten([col \in 1..Len(ls[row]) |-> UnicodeCell(ls, row, col)])])

\* ------------------------------------------------------------------------
\* verify.py: _is_structural
\* ------------------------------------------------------------------------

\* while scan >= 0 and padded[row][scan].isalpha(): scan -= 1
RECURSIVE ScanLeft(_, _)
ScanLeft(rowtext, scan) ==
    IF scan >= 1 /\ IsAlpha(rowtext[scan]) THEN ScanLeft(rowtext, scan - 1)
    ELSE scan

\* while scan < width and padded[row][scan].isalpha(): scan += 1
RECURSIVE ScanRight(_, _, _)
ScanRight(rowtext, scan, width) ==
    IF scan <= width /\ IsAlpha(rowtext[scan])
    THEN ScanRight(rowtext, scan + 1, width)
    ELSE scan

LongRunLeft(rowtext, col) == col - 1 - ScanLeft(rowtext, col - 2) >= 2

\* variant of LongRunRight whose run length is off by one
LongRunRight_OffByOne(rowtext, col, width) ==
    ScanRight(rowtext, col + 2, width) - col >= 2

LongRunRight(rowtext, col, width) ==
    ScanRight(rowtext, col + 2, width) - col - 1 >= 2

is_structural(ch, row, col, padded, width) ==
    IF ch = "|" THEN TRUE
    ELSE
      LET left_char  == IF col > 1 THEN padded[row][col - 1] ELSE " "
          right_char == IF col + 1 <= width THEN padded[row][col + 1] ELSE " "
      IN  IF IsAlpha(left_char) /\ IsAlpha(right_char) THEN FALSE
          ELSE IF IsAlpha(left_char) /\ LongRunLeft(padded[row], col)
               THEN FALSE
          ELSE IF IsAlpha(right_char) /\ LongRunRight(padded[row], col, width)
               THEN FALSE
          ELSE TRUE

\* ------------------------------------------------------------------------
\* verify.py: check_junctions
\* ------------------------------------------------------------------------

\* the cells the junction loop does not skip
JunctionChecked(padded, row, col, width) ==
    LET ch == padded[row][col]
    IN  /\ ch \in VLINE_CHARS
        /\ ~(ch \in {"^", "v"} /\ ~is_structural(ch, row, col, padded, width))

\* variant of JunctionDir that reports every neighbour other than '+'
JunctionDir_AnyNonPlus(padded, row, col, dr, direction) ==
    LET nr == row + dr
    IN  IF 1 <= nr /\ nr <= Len(padded)
        THEN IF padded[nr][col] = "+"
             THEN [ok |-> 1, issues |-> <<>>]
             ELSE [ok |-> 0,
                   issues |-> << [line |-> row, col |-> col,
                                  ch |-> padded[row][col],
                                  direction |-> direction,
                                  adjLine |-> nr] >>]
        ELSE [ok |-> 0, issues |-> <<>>]

\* the body of "for dr, direction in [(-1, 'above'), (1, 'below')]"
JunctionDir(padded, row, col, dr, direction) ==
    LET nr == row + dr
    IN  IF 1 <= nr /\ nr <= Len(padded)
        THEN LET adj == padded[nr][col]
             IN  IF adj \in HLINE_CHARS
                 THEN IF adj = "+"
                      THEN [ok |-> 1, issues |-> <<>>]
                      ELSE [ok |-> 0,
                            issues |-> << [line |-> row, col |-> col,
                                           ch |-> padded[row][col],
                                           direction |-> direction,
                                           adjLine |-> nr] >>]
                 ELSE [ok |-> 0, issues |-> <<>>]
        ELSE [ok |-> 0, issues |-> <<>>]

\* variant of JunctionCell that counts a cell once, however many '+' it meets
JunctionCell_OncePerCell(padded, row, col, width) ==
    IF JunctionChecked(padded, row, col, width)
    THEN LET a == JunctionDir(padded, row, col, -1, "above")
             b == JunctionDir(padded, row, col, 1, "below")
         IN  [ok |-> IF a.ok + b.ok > 0 THEN 1 ELSE 0,
              issues |-> a.issues \o b.issues]
    ELSE [ok |-> 0, issues |-> <<>>]

JunctionCell(padded, row, col, width) ==
    IF JunctionChecked(padded, row, col, width)
    THEN LET a == JunctionDir(padded, row, col, -1, "above")
             b == JunctionDir(padded, row, col, 1, "below")
         IN  [ok |-> a.ok + b.ok, issues |-> a.issues \o b.issues]
    ELSE [ok |-> 0, issues |-> <<>>]

RECURSIVE SumSeq(_)
SumSeq(s) == IF s = <<>> THEN 0 ELSE Head(s) + SumSeq(Tail(s))

\* returns issues, ok_count
check_junctions(ls) ==
    LET width  == MaxLen(ls)
        padded == PadLines(ls)
        cell(row, col) == JunctionCell(padded, row, col, width)
    IN  [issues |->
            Flatten([row \in 1..Len(padded) |->
                Flatten([col \in 1..width |-> cell(row, col).issues])]),
         ok_count |->
            SumSeq([row \in 1..Len(padded) |->
                SumSeq([col \in 1..width |-> cell(row, col).ok])])]

\* ------------------------------------------------------------------------
\* verify.py: check_arrows
\* ------------------------------------------------------------------------

ArrowChecked(padded, row, col, width) ==
    LET ch == padded[row][col]
    IN  /\ ch \in ARROW_CHARS
        /\ ~(ch \in {"^", "v"} /\ ~is_structural(ch, row, col, padded, width))

\* variant of ArrowNeighbours that looks above and below only
ArrowNeighbours_VerticalOnly(padded, row, col, width) ==
    {p \in {<<row - 1, col>>, <<row + 1, col>>} :
        /\ 1 <= p[1] /\ p[1] <= Len(padded)
        /\ 1 <= p[2] /\ p[2] <= width}

\* the neighbours "for dr, dc in [(-1, 0), (1, 0), (0, -1), (0, 1)]" reaches
ArrowNeighbours(padded, row, col, width) ==
    {p \in {<<row - 1, col>>, <<row + 1, col>>, <<row, col - 1>>, <<row, col + 1>>} :
        /\ 1 <= p[1] /\ p[1] <= Len(padded)
        /\ 1 <= p[2] /\ p[2] <= width}

ArrowConnected(padded, row, col, width) ==
    \E p \in ArrowNeighbours(padded, row, col, width) :
        padded[p[1]][p[2]] \in CONNECTING_CHARS

ArrowCell(padded, row, col, width) ==
    IF /\ ArrowChecked(padded, row, col, width)
       /\ ~ArrowConnected(padded, row, col, width)
    THEN << [line |-> row, col |-> col, ch |-> padded[row][col]] >>
    ELSE <<>>

check_arrows(ls) ==
    LET width  == MaxLen(ls)
        padded == PadLines(ls)
    IN  Flatten([row \in 1..Len(padded) |->
            Flatten([col \in 1..width |-> ArrowCell(padded, row, col, width)])])

\* ------------------------------------------------------------------------
\* verify.py: find_boxes
\* ------------------------------------------------------------------------

\* the end of the maximal run of '-'/'+' characters that starts at index i
RECURSIVE RunEnd(_, _)
RunEnd(line, i) ==
    IF i <= Len(line) /\ line[i] \in {"-", "+"} THEN RunEnd(line, i + 1)
    ELSE i - 1

\* re '\+[-+]+\+' matched at index i: the index of the match's last character,
\* or 0 when the pattern does not match there.  [-+]+ is greedy, so the match
\* ends at the last '+' of the run that leaves at least one character between.
BorderMatchEnd(line, i) ==
    IF line[i] # "+" THEN 0
    ELSE LET ends == {k \in (i + 2)..RunEnd(line, i + 1) : line[k] = "+"}
         IN  IF ends = {} THEN 0
             ELSE CHOOSE k \in ends : \A k2 \in ends : k2 <= k

\* border_re.finditer(line): leftmost non-overlapping matches from index pos
RECURSIVE BorderMatches(_, _, _)
BorderMatches(line, i, pos) ==
    IF pos > Len(line) THEN <<>>
    ELSE LET k == BorderMatchEnd(line, pos)
         IN  IF k = 0 THEN BorderMatches(line, i, pos + 1)
             ELSE << [line  |-> i,
                      col   |-> pos,
                      width |-> k - pos + 1,
                      text  |-> SubSeq(line, pos, k)] >>
                  \o BorderMatches(line, i, k + 1)

\* the first loop of find_boxes: every border of every line, in scan order
FindBorders(ls) ==
    Flatten([i \in 1..Len(ls) |-> BorderMatches(ls[i], i, 1)])

SelectByCol(boxes, col) == SelectSeq(boxes, LAMBDA b : b.col = col)

\* Counter(b['width'] for b in group)[w]
WidthCount(group, w) == Len(SelectSeq(group, LAMBDA b : b.width = w))

GroupWidths(group) == {group[k].width : k \in 1..Len(group)}

\* variant of MultiWidths that keeps every width, repeated or not
MultiWidths_AnyCount(group) ==
    {w \in GroupWidths(group) : WidthCount(group, w) >= 1}

\* [w for w, c in width_counts.items() if c >= 2]
MultiWidths(group) == {w \in GroupWidths(group) : WidthCount(group, w) >= 2}

\* the body of "for col, group in sorted(by_col.items())"
WidthIssue(boxes, col) ==
    LET group == SelectByCol(boxes, col)
    IN  IF Len(group) < 2 THEN <<>>
        ELSE IF Cardinality(GroupWidths(group)) <= 1 THEN <<>>
        ELSE IF Cardinality(MultiWidths(group)) >= 2
             THEN << [kind    |-> "width",
                      col     |-> col,
                      entries |-> [k \in 1..Len(group) |->
                                     [line  |-> group[k].line,
                                      width |-> group[k].width]]] >>
        ELSE <<>>

\* the width issues, by ascending start column
WidthIssues(ls) ==
    LET boxes == FindBorders(ls)
    IN  Flatten([col \in 1..MaxLen(ls) |-> WidthIssue(boxes, col)])

\* the index of the first '|' at or after pos, or 0
RECURSIVE NextBar(_, _)
NextBar(line, pos) ==
    IF pos > Len(line) THEN 0
    ELSE IF line[pos] = "|" THEN pos
    ELSE NextBar(line, pos + 1)

\* the test find_boxes makes of one match of '\|([^|]*)\|'
PaddingIssue(i, start, content) ==
    IF content # <<>> /\ Len(content) >= 2
    THEN LET stripped_content == Lstrip(content)
         IN  IF stripped_content # <<>> /\ stripped_content[1] \in {"-", "<", ">"}
             THEN <<>>
             ELSE IF content[1] # " "
                  THEN << [kind |-> "padding", line |-> i, col |-> start] >>
                  ELSE <<>>
    ELSE <<>>

\* re.finditer(r'\|([^|]*)\|', line) from index pos, with the test of each match
RECURSIVE LabelMatches(_, _, _)
LabelMatches(line, i, pos) ==
    LET s == NextBar(line, pos)
        e == IF s = 0 THEN 0 ELSE NextBar(line, s + 1)
    IN  IF s = 0 \/ e = 0 THEN <<>>
        ELSE PaddingIssue(i, s, SubSeq(line, s + 1, e - 1))
             \o LabelMatches(line, i, e + 1)

PaddingIssues(ls) ==
    Flatten([i \in 1..Len(ls) |-> LabelMatches(ls[i], i, 1)])

\* variant of find_boxes that lists the label-padding issues first
find_boxes_PaddingFirst(ls) ==
    [issues |-> PaddingIssues(ls) \o WidthIssues(ls),
     boxes  |-> FindBorders(ls)]

\* returns issues, boxes
find_boxes(ls) ==
    [issues |-> WidthIssues(ls) \o PaddingIssues(ls),
     boxes  |-> FindBorders(ls)]

\* ------------------------------------------------------------------------
\* verify.py: extract_from_markdown
\* ------------------------------------------------------------------------

Uppers == <<"A","B","C","D","E","F","G","H","I","J","K","L","M",
            "N","O","P","Q","R","S","T","U","V","W","X","Y","Z">>

Lowers == <<"a","b","c","d","e","f","g","h","i","j","k","l","m",
            "n","o","p","q","r","s","t","u","v","w","x","y","z">>

UpperSet == {Uppers[k] : k \in 1..26}

LowerOf == [c \in UpperSet |-> Lowers[CHOOSE k \in 1..26 : Uppers[k] = c]]

\* str.lower() of one character
LowerChar(c) == IF c \in UpperSet THEN LowerOf[c] ELSE c

\* str.lower()
Lower(s) == [k \in 1..Len(s) |-> LowerChar(s[k])]

\* sub in s
Contains(s, sub) ==
    \E k \in 0..(Len(s) - Len(sub)) : SubSeq(s, k + 1, k + Len(sub)) = sub

\* Python truthiness of an optional string / an optional integer
TruthyStr(x) == x # None /\ x[1] # <<>>

TruthyInt(x) == x # None /\ x[1] # 0

\* the fence marker, three backquotes (U+0060)
FENCE == <<"U0060", "U0060", "U0060">>

\* line.strip().startswith(FENCE)
IsFence(line) == StartsWith(Strip(line), FENCE)

\* variant of HeadingMatches that compares the heading case-sensitively
HeadingMatches_CaseSensitive(line, heading) ==
    StartsWith(line, <<"#">>) /\ Contains(line, heading)

\* line.startswith('#') and heading.lower() in line.lower()
HeadingMatches(line, heading) ==
    StartsWith(line, <<"#">>) /\ Contains(Lower(line), Lower(heading))

\* '\n'.join(xs) of a list of lines, as a text
JoinLines(xs) == IF xs = <<>> THEN << <<>> >> ELSE xs

\* '\n'.join(ts) of a list of texts, as a text
JoinTexts(ts) == IF ts = <<>> THEN << <<>> >> ELSE Flatten(ts)

\* the loop "for line in lines" from its i-th line on; st holds the loop's
\* variables heading_found, in_block, current_block, blocks
RECURSIVE ExtractLoop(_, _, _, _)
ExtractLoop(text, i, heading, st) ==
    IF i > Len(text) THEN st.blocks
    ELSE
      LET line == text[i]
      IN  IF TruthyStr(heading) /\ ~st.heading_found
          THEN ExtractLoop(text, i + 1, heading,
                   [st EXCEPT !.heading_found = HeadingMatches(line, heading[1])])
          ELSE IF IsFence(line) /\ ~st.in_block
          THEN ExtractLoop(text, i + 1, heading,
                   [st EXCEPT !.in_block = TRUE, !.current_block = <<>>])
          ELSE IF IsFence(line) /\ st.in_block
          THEN LET closed == Append(st.blocks, JoinLines(st.current_block))
               IN  IF TruthyStr(heading) THEN closed
                   ELSE ExtractLoop(text, i + 1, heading,
                            [st EXCEPT !.in_block = FALSE, !.blocks = closed])
          ELSE IF st.in_block
          THEN ExtractLoop(text, i + 1, heading,
                   [st EXCEPT !.current_block = Append(@, line)])
          ELSE ExtractLoop(text, i + 1, heading, st)

\* blocks as the loop leaves it
ExtractBlocks(text, heading) ==
    ExtractLoop(text, 1, heading,
        [heading_found |-> heading = None, in_block |-> FALSE,
         current_block |-> <<>>, blocks |-> <<>>])

\* returns the extracted text, and what it printed to the error stream
extract_from_markdown(text, heading, block_num) ==
    LET blocks == ExtractBlocks(text, heading)
    IN  IF block_num # None
        THEN IF 1 <= block_num[1] /\ block_num[1] <= Len(blocks)
             THEN [text |-> blocks[block_num[1]], err |-> <<>>]
             ELSE [text |-> << <<>> >>,
                   err  |-> << [msg |-> "Error: block not found",
                                block |-> block_num[1], have |-> Len(blocks)] >>]
        ELSE IF TruthyStr(heading) /\ blocks # <<>>
        THEN [text |-> blocks[1], err |-> <<>>]
        ELSE [text |-> IF blocks # <<>> THEN JoinTexts(blocks) ELSE text,
              err  |-> <<>>]

\* ------------------------------------------------------------------------
\* verify.py: show_columns and main
\* ------------------------------------------------------------------------

show_columns(ls, line_num) ==
    IF line_num < 1 \/ line_num > Len(ls)
    THEN [step |-> "Columns", status |-> "out of range", issues |-> <<>>,
          count |-> Len(ls), ok_printed |-> TRUE]
    ELSE [step |-> "Columns", status |-> "OK",
          issues |-> SelectSeq(
              [k \in 1..Len(ls[line_num]) |-> [col |-> k, ch |-> ls[line_num][k]]],
              LAMBDA e : e.ch \in CONNECTING_CHARS),
          count |-> line_num, ok_printed |-> TRUE]

\* not text.strip()
IsBlankText(text) == \A k \in 1..Len(text) : Strip(text[k]) = <<>>

\* while lines and not lines[-1].strip(): lines.pop()
RECURSIVE StripTrailingEmpty(_)
StripTrailingEmpty(ls) ==
    IF ls # <<>> /\ Strip(ls[Len(ls)]) = <<>>
    THEN StripTrailingEmpty(SubSeq(ls, 1, Len(ls) - 1))
    ELSE ls

\* the text main() hands on after "Extract diagram if needed"
MainText ==
    IF TruthyStr(args.extract) \/ TruthyInt(args.block)
    THEN extract_from_markdown(stdin, args.extract, args.block)
    ELSE [text |-> stdin, err |-> <<>>]

\* what a check prints: its FAIL header and issues, or its OK line unless --quiet
Section(step, issues, count) ==
    [step |-> step,
     status |-> IF issues # <<>> THEN "FAIL" ELSE "OK",
     issues |-> issues,
     count |-> count,
     ok_printed |-> (issues = <<>> /\ ~args.quiet)]

\* main(), from reading standard input to the --columns exit
Load ==
    /\ pc = "start"
    /\ LET t == MainText
       IN  IF IsBlankText(t.text)
           THEN /\ stderr' = t.err \o << [msg |-> "Error: no diagram content found"] >>
                /\ exit_code' = <<1>>
                /\ pc' = "exit"
                /\ UNCHANGED <<lines, report>>
           ELSE /\ lines' = StripTrailingEmpty(t.text)
                /\ stderr' = t.err
                /\ IF TruthyInt(args.columns)
                   THEN /\ report' = << show_columns(lines', args.columns[1]) >>
                        /\ exit_code' = <<0>>
                        /\ pc' = "exit"
                   ELSE /\ pc' = "step1"
                        /\ UNCHANGED <<report, exit_code>>
    /\ UNCHANGED <<stdin, args, buf, out, errs, hist, label>>

\* Step 1: Unicode scan
Step1 ==
    /\ pc = "step1"
    /\ report' = Append(report, Section("Unicode", check_unicode(lines), 0))
    /\ pc' = "step2"
    /\ UNCHANGED <<stdin, args, lines, stderr, exit_code, buf, out, errs, hist, label>>

\* Step 2: Junction audit
Step2 ==
    /\ pc = "step2"
    /\ LET r == check_junctions(lines)
       IN  report' = Append(report, Section("Junction", r.issues, r.ok_count))
    /\ pc' = "step3"
    /\ UNCHANGED <<stdin, args, lines, stderr, exit_code, buf, out, errs, hist, label>>

\* Step 3: Box consistency
Step3 ==
    /\ pc = "step3"
    /\ LET r == find_boxes(lines)
       IN  report' = Append(report, Section("Box", r.issues, Len(r.boxes)))
    /\ pc' = "step4"
    /\ UNCHANGED <<stdin, args, lines, stderr, exit_code, buf, out, errs, hist, label>>

\* sum(1 for line in lines for ch in line if ch in '^v<>')
ArrowCount(ls) ==
    SumSeq([i \in 1..Len(ls) |->
        Len(SelectSeq(ls[i], LAMBDA ch : ch \in ARROW_CHARS))])

\* Step 4: Arrow connectivity
Step4 ==
    /\ pc = "step4"
    /\ report' = Append(report, Section("Arrow", check_arrows(lines), ArrowCount(lines)))
    /\ pc' = "step5"
    /\ UNCHANGED <<stdin, args, lines, stderr, exit_code, buf, out, errs, hist, label>>

\* all_ok as the four steps leave it
AllOk == \A k \in 1..Len(report) : report[k].issues = <<>>

\* Step 5 and the summary
Summary ==
    /\ pc = "step5"
    /\ report' = Append(report,
                     [step |-> "Result",
                      status |-> IF AllOk THEN "PASSED" ELSE "FAILED",
                      issues |-> <<>>, count |-> 0, ok_printed |-> TRUE])
    /\ exit_code' = IF AllOk THEN <<0>> ELSE <<1>>
    /\ pc' = "exit"
    /\ UNCHANGED <<stdin, args, lines, stderr, buf, out, errs, hist, label>>

VerifyNext == Load \/ Step1 \/ Step2 \/ Step3 \/ Step4 \/ Summary

\* the builder's variables, idle while the verifier runs
GridIdle ==
    /\ buf = None
    /\ out = <<>>
    /\ errs = <<>>
    /\ hist = <<>>
    /\ label = <<>>

NoArgs == [extract |-> None, block |-> None, columns |-> None, quiet |-> FALSE]

\* the verifier started on a raw diagram (no options)
VerifyInit(diagrams) ==
    /\ stdin \in diagrams
    /\ args = NoArgs
    /\ pc = "start"
    /\ lines = <<>>
    /\ report = <<>>
    /\ stderr = <<>>
    /\ exit_code = None
    /\ GridIdle

\* ------------------------------------------------------------------------
\* Inputs: the diagrams the verifier is run on
\* ------------------------------------------------------------------------

\* the sequences of 1..n elements of S
SeqsUpTo(S, n) == UNION {[1..k -> S] : k \in 1..n}

\* the sequences of 0..n elements of S
StrsUpTo(S, n) == UNION {[1..k -> S] : k \in 0..n}

\* lines of box, connector, arrow and label text, of unequal lengths
DiagramPool ==
    {
     <<"+","-","-","+">>,                           \* [+--+]
     <<"|"," "," ","|">>,                           \* [|  |]
     <<"+","-","-","-">>,                           \* [+---]
     <<"+","-","+","+">>,                           \* [+-++]
     <<"|"," ","|","|">>,                           \* [| ||]
     <<" ","v"," ","<">>,                           \* [ v <]
     <<"a","v","b","-">>,                           \* [avb-]
     <<"a","a","v","^">>,                           \* [aav^]
     <<"|","v",">">>,                               \* [|v>]
     <<"-","-">>,                                   \* [--]
     <<>>,                                          \* []
     <<"^","-","v">>                                \* [^-v]
    }

MaxRows == 3

Diagrams == SeqsUpTo(DiagramPool, MaxRows)

DiagramInit == VerifyInit(Diagrams)

SpecDiagram == DiagramInit /\ [][VerifyNext]_vars

\* one line of every text over WordAlphabet, alone or over a line of dashes
WordAlphabet == {"a", "v", "^", "|", " "}

MaxWordLen == 5

Dashes(n) == [k \in 1..n |-> "-"]

Words ==
    StrsUpTo(WordAlphabet, MaxWordLen) \cup {<<"S","e","r","v","e","r">>}

WordDiagrams ==
    {<<w>> : w \in Words} \cup {<<w, Dashes(Len(w))>> : w \in Words}

WordInit == VerifyInit(WordDiagrams)

SpecWord == WordInit /\ [][VerifyNext]_vars

\* borders of widths 8 and 6 at columns 1 and 10, and a label row
BoxPool ==
    {
     <<"+","-","-","-","-","-","-","+">>,           \* [+------+]
     <<"+","-","-","-","-","+">>,                   \* [+----+]
     <<"+","-","-","+","-","-","-","+">>,           \* [+--+---+]
     <<"+","-","-","-","-","+"," "," "," ","+","-","-","-","-","+">>, \* [+----+   +----+]
     <<"+","-","-","-","-","-","-","+"," ","+","-","-","-","-","-","-","+">>, \* [+------+ +------+]
     <<"|","a","b","|">>                            \* [|ab|]
    }

MaxBoxRows == 4

BoxDiagrams == SeqsUpTo(BoxPool, MaxBoxRows)

BoxInit == VerifyInit(BoxDiagrams)

SpecBoxes == BoxInit /\ [][VerifyNext]_vars

\* lines that raise issues in each of the four checks
OrderPool ==
    {
     <<"+","-","+">>,                               \* [+-+]
     <<"+","-","-","+">>,                           \* [+--+]
     <<"|","a","b","|">>,                           \* [|ab|]
     <<"U250C"," ","<"," ",">","U2510">>,           \* [{U+250C} < >{U+2510}]
     <<"v","|","v">>                                \* [v|v]
    }

MaxOrderRows == 5

OrderDiagrams == SeqsUpTo(OrderPool, MaxOrderRows)

OrderInit == VerifyInit(OrderDiagrams)

SpecOrder == OrderInit /\ [][VerifyNext]_vars

\* markdown lines: a fence, a heading, a diagram line, a text line, an empty line
DocPool ==
    {
     FENCE,                                         \* [```]
     <<"#"," ","A","b">>,                           \* [# Ab]
     <<"+","-","+">>,                               \* [+-+]
     <<"a","b">>,                                   \* [ab]
     <<>>                                           \* []
    }

MaxDocLines == 5

Documents == SeqsUpTo(DocPool, MaxDocLines)

\* --block N for N from below 1 to above the number of blocks a document can
\* hold, --extract ab, or neither
MaxBlockArg == 3

ExtractArgs ==
    {[NoArgs EXCEPT !.block = <<n>>] : n \in (-1)..MaxBlockArg}
        \cup {[NoArgs EXCEPT !.extract = << <<"a","b">> >>], NoArgs}

ExtractInit ==
    /\ stdin \in Documents
    /\ args \in ExtractArgs
    /\ pc = "start"
    /\ lines = <<>>
    /\ report = <<>>
    /\ stderr = <<>>
    /\ exit_code = None
    /\ GridIdle

SpecExtract == ExtractInit /\ [][VerifyNext]_vars

\* markdown lines for --extract: a fence, the heading looked for, another
\* heading, a text line that holds the heading's words, an empty line
HeadingPool ==
    {
     FENCE,                                         \* [```]
     <<"#"," ","A","b">>,                           \* [# Ab]
     <<"#","b">>,                                   \* [#b]
     <<"a","b">>,                                   \* [ab]
     <<>>                                           \* []
    }

HeadingDocuments == SeqsUpTo(HeadingPool, MaxDocLines)

\* --extract ab or --extract AB, without --block
HeadingArgs ==
    {[NoArgs EXCEPT !.extract = <<h>>] : h \in {<<"a","b">>, <<"A","B">>}}

HeadingInit ==
    /\ stdin \in HeadingDocuments
    /\ args \in HeadingArgs
    /\ pc = "start"
    /\ lines = <<>>
    /\ report = <<>>
    /\ stderr = <<>>
    /\ exit_code = None
    /\ GridIdle

SpecHeading == HeadingInit /\ [][VerifyNext]_vars

\* ------------------------------------------------------------------------
\* grid.py: class Grid
\* ------------------------------------------------------------------------

\* Grid.line: [' '] * self.width
Grid_line(width) == [i \in 1..width |-> " "]

\* variant of put without the lower bound test: as Python indexes a list, a
\* negative index then counts from the end of the buffer
RECURSIVE put_NoLowerBound(_, _, _, _)
put_NoLowerBound(width, b, col, text) ==
    IF text = <<>> THEN b
    ELSE LET idx == col - 1
             nb  == IF idx < width /\ idx >= -width
                    THEN [b EXCEPT ![IF idx >= 0 THEN idx + 1 ELSE width + idx + 1]
                                       = Head(text)]
                    ELSE b
         IN  put_NoLowerBound(width, nb, col + 1, Tail(text))

\* Grid.put: for i, ch in enumerate(text): idx = col - 1 + i; the buffer index
\* idx is cell idx + 1 here
RECURSIVE put(_, _, _, _)
put(width, b, col, text) ==
    IF text = <<>> THEN b
    ELSE LET idx == col - 1
             nb  == IF 0 <= idx /\ idx < width
                    THEN [b EXCEPT ![idx + 1] = Head(text)]
                    ELSE b
         IN  put(width, nb, col + 1, Tail(text))

\* Grid.fill: for c in range(col1, col2 + 1)
RECURSIVE fill(_, _, _, _, _)
fill(width, b, col1, col2, ch) ==
    IF col1 > col2 THEN b
    ELSE LET idx == col1 - 1
             nb  == IF 0 <= idx /\ idx < width
                    THEN [b EXCEPT ![idx + 1] = ch]
                    ELSE b
         IN  fill(width, nb, col1 + 1, col2, ch)

\* Grid.hline
hline(width, b, col1, col2) ==
    put(width, fill(width, put(width, b, col1, <<"+">>), col1 + 1, col2 - 1, "-"),
        col2, <<"+">>)

\* '-' * n
Repeat(ch, n) == [k \in 1..n |-> ch]

\* Grid.box_str, with its default padding
box_str(lbl) ==
    LET padding == 1
        inner   == padding * 2 + Len(lbl)
    IN  <<"+">> \o Repeat("-", inner) \o <<"+">>

\* variant of box_label_str that pads the label before it adds the space
box_label_str_PadLabel(lbl, width) ==
    LET inner == width - 2
    IN  <<"|">> \o <<" ">> \o Ljust(lbl, inner) \o <<"|">>

\* Grid.box_label_str
box_label_str(lbl, width) ==
    LET inner == width - 2
    IN  <<"|">> \o Ljust(<<" ">> \o lbl, inner) \o <<"|">>

\* Grid.build: ''.join(buf).rstrip()
build(b) == Rstrip(b)

Digits == <<"0", "1", "2", "3", "4", "5", "6", "7", "8", "9">>

\* str(d) of a digit
DigitStr(d) == Digits[d + 1]

\* Grid.ruler: the two lines it prints
ruler(width) ==
    << [i \in 1..width |-> IF i >= 10 THEN DigitStr((i \div 10) % 10) ELSE " "],
       [i \in 1..width |-> DigitStr(i % 10)] >>

\* the verifier's variables, idle while the builder runs
VerifyIdle ==
    /\ stdin = << <<>> >>
    /\ args = NoArgs
    /\ pc = "idle"
    /\ lines = <<>>
    /\ report = <<>>
    /\ stderr = <<>>
    /\ exit_code = None

\* ------------------------------------------------------------------------
\* grid.py used as a library: one buffer, and calls on it
\* ------------------------------------------------------------------------

GridWidth == 3

\* the columns calls are made with: from below 1 to beyond the width
Cols == 0..(GridWidth + 1)

MaxTextLen == 2

\* the texts calls are made with: "", "a", "ab", ...
Texts == {SubSeq(<<"a", "b", "c", "d", "e", "f">>, 1, n) : n \in 0..MaxTextLen}

Call(op, col, col2, text) ==
    [op |-> op, col |-> col, col2 |-> col2, text |-> text, before |-> buf[1]]

Put(col, text) ==
    /\ buf' = << put(GridWidth, buf[1], col, text) >>
    /\ hist' = << Call("put", col, 0, text) >>
    /\ UNCHANGED <<stdin, args, pc, lines, report, stderr, exit_code, out, errs, label>>

Fill(col1, col2, ch) ==
    /\ buf' = << fill(GridWidth, buf[1], col1, col2, ch) >>
    /\ hist' = << Call("fill", col1, col2, <<ch>>) >>
    /\ UNCHANGED <<stdin, args, pc, lines, report, stderr, exit_code, out, errs, label>>

Hline(col1, col2) ==
    /\ buf' = << hline(GridWidth, buf[1], col1, col2) >>
    /\ hist' = << Call("hline", col1, col2, <<>>) >>
    /\ UNCHANGED <<stdin, args, pc, lines, report, stderr, exit_code, out, errs, label>>

GridNext ==
    \/ \E col \in Cols, text \in Texts : Put(col, text)
    \/ \E col1 \in Cols, col2 \in Cols, ch \in {"x"} : Fill(col1, col2, ch)
    \/ \E col1 \in Cols, col2 \in Cols : Hline(col1, col2)

\* g = Grid(width); buf = g.line()
GridInit ==
    /\ VerifyIdle
    /\ buf = << Grid_line(GridWidth) >>
    /\ out = <<>>
    /\ errs = <<>>
    /\ hist = <<>>
    /\ label = <<>>

SpecGrid == GridInit /\ [][GridNext]_vars

\* ------------------------------------------------------------------------
\* grid.py used as a library: box_label_str
\* ------------------------------------------------------------------------

MaxLabelLen == 3

MaxBoxWidth == 7

Labels == StrsUpTo({"a", "b"}, MaxLabelLen)

BoxLabel(lbl, width) ==
    /\ label' = << [label |-> lbl, width |-> width,
                    result |-> box_label_str(lbl, width)] >>
    /\ UNCHANGED <<stdin, args, pc, lines, report, stderr, exit_code,
                   buf, out, errs, hist>>

LabelNext == \E lbl \in Labels, width \in 0..MaxBoxWidth : BoxLabel(lbl, width)

LabelInit ==
    /\ VerifyIdle
    /\ buf = None
    /\ out = <<>>
    /\ errs = <<>>
    /\ hist = <<>>
    /\ label = <<>>

SpecLabel == LabelInit /\ [][LabelNext]_vars

\* ------------------------------------------------------------------------
\* grid.py: _run_commands
\* ------------------------------------------------------------------------

\* A command is what one input line parses to: word is parts[0], col and col2
\* are the integers read from parts[1] and parts[2], text is the rest (the
\* text of put, the label of box, the fill character, "" when absent).  A
\* comment or empty line has the word "#" or "".
Cmd(word, col, col2, text) ==
    [word |-> word, col |-> col, col2 |-> col2, text |-> text]

\* parts[0].lower()
CmdWord(c) == Lower(c.word)

W_line == <<"l","i","n","e">>

W_put == <<"p","u","t">>

W_fill == <<"f","i","l","l">>

W_hline == <<"h","l","i","n","e">>

W_box == <<"b","o","x">>

W_emit == <<"e","m","i","t">>

W_ruler == <<"r","u","l","e","r">>

W_blank == <<"b","l","a","n","k">>

W_dashes == <<"-","-","-">>

\* not line or line.startswith('#')
IsSkipped(c) == c.word = <<>> \/ StartsWith(c.word, <<"#">>)

KnownWords ==
    {W_line, W_put, W_fill, W_hline, W_box, W_emit, W_ruler, W_blank, W_dashes}

\* if buf is None: buf = g.line()
BufOrNew(width) == IF buf = None THEN Grid_line(width) ELSE buf[1]

MaxCmds == 4

\* one more command line is read; the verifier's variables stay idle
Seen(c) ==
    /\ Len(hist) < MaxCmds
    /\ hist' = Append(hist, c)
    /\ UNCHANGED <<stdin, args, pc, lines, report, stderr, exit_code, label>>

SkipLine(c) ==
    /\ IsSkipped(c)
    /\ Seen(c)
    /\ UNCHANGED <<buf, out, errs>>

CmdLine(c) ==
    /\ ~IsSkipped(c) /\ CmdWord(c) = W_line
    /\ buf' = << Grid_line(GridWidth) >>
    /\ Seen(c)
    /\ UNCHANGED <<out, errs>>

CmdPut(c) ==
    /\ ~IsSkipped(c) /\ CmdWord(c) = W_put
    /\ buf' = << put(GridWidth, BufOrNew(GridWidth), c.col, c.text) >>
    /\ Seen(c)
    /\ UNCHANGED <<out, errs>>

CmdFill(c) ==
    /\ ~IsSkipped(c) /\ CmdWord(c) = W_fill
    /\ LET ch == IF Len(c.text) > 0 THEN c.text[1] ELSE "-"
       IN  buf' = << fill(GridWidth, BufOrNew(GridWidth), c.col, c.col2, ch) >>
    /\ Seen(c)
    /\ UNCHANGED <<out, errs>>

CmdHline(c) ==
    /\ ~IsSkipped(c) /\ CmdWord(c) = W_hline
    /\ buf' = << hline(GridWidth, BufOrNew(GridWidth), c.col, c.col2) >>
    /\ Seen(c)
    /\ UNCHANGED <<out, errs>>

CmdBox(c) ==
    /\ ~IsSkipped(c) /\ CmdWord(c) = W_box
    /\ buf' = << put(GridWidth, BufOrNew(GridWidth), c.col, box_str(c.text)) >>
    /\ Seen(c)
    /\ UNCHANGED <<out, errs>>

\* variant of CmdEmit that prints the buffer and keeps it
CmdEmit_KeepsBuffer(c) ==
    /\ ~IsSkipped(c) /\ CmdWord(c) = W_emit
    /\ IF buf # None
       THEN out' = Append(out, build(buf[1])) /\ buf' = buf
       ELSE UNCHANGED <<buf, out>>
    /\ Seen(c)
    /\ UNCHANGED errs

CmdEmit(c) ==
    /\ ~IsSkipped(c) /\ CmdWord(c) = W_emit
    /\ IF buf # None
       THEN out' = Append(out, build(buf[1])) /\ buf' = None
       ELSE UNCHANGED <<buf, out>>
    /\ Seen(c)
    /\ UNCHANGED errs

CmdRuler(c) ==
    /\ ~IsSkipped(c) /\ CmdWord(c) = W_ruler
    /\ out' = out \o ruler(GridWidth)
    /\ Seen(c)
    /\ UNCHANGED <<buf, errs>>

CmdBlank(c) ==
    /\ ~IsSkipped(c) /\ CmdWord(c) \in {W_blank, W_dashes}
    /\ out' = Append(out, <<>>)
    /\ Seen(c)
    /\ UNCHANGED <<buf, errs>>

CmdUnknown(c) ==
    /\ ~IsSkipped(c) /\ CmdWord(c) \notin KnownWords
    /\ errs' = Append(errs, CmdWord(c))
    /\ Seen(c)
    /\ UNCHANGED <<buf, out>>

\* the command lines the builder is fed
BuilderCommands ==
    {Cmd(<<"L","i","n","e">>, 0, 0, <<>>),
     Cmd(W_emit, 0, 0, <<>>),
     Cmd(W_put, 1, 0, <<"a", "b">>),
     Cmd(W_fill, 2, GridWidth + 1, <<"x">>),
     Cmd(W_hline, 0, 2, <<>>),
     Cmd(W_box, 2, 0, <<"a">>),
     Cmd(W_ruler, 0, 0, <<>>),
     Cmd(W_blank, 0, 0, <<>>),
     Cmd(W_dashes, 0, 0, <<>>),
     Cmd(<<"b","o","x","x">>, 1, 0, <<"a">>),
     Cmd(<<"#">>, 0, 0, <<>>)}

\* the body of "for raw_line in commands", on one more command line
BuilderNext ==
    \/ \E c \in BuilderCommands : SkipLine(c)
    \/ \E c \in BuilderCommands : CmdLine(c)
    \/ \E c \in BuilderCommands : CmdPut(c)
    \/ \E c \in BuilderCommands : CmdFill(c)
    \/ \E c \in BuilderCommands : CmdHline(c)
    \/ \E c \in BuilderCommands : CmdBox(c)
    \/ \E c \in BuilderCommands : CmdEmit(c)
    \/ \E c \in BuilderCommands : CmdRuler(c)
    \/ \E c \in BuilderCommands : CmdBlank(c)
    \/ \E c \in BuilderCommands : CmdUnknown(c)

\* g = Grid(width=width); buf = None
BuilderInit ==
    /\ VerifyIdle
    /\ buf = None
    /\ out = <<>>
    /\ errs = <<>>
    /\ hist = <<>>
    /\ label = <<>>

SpecBuilder == BuilderInit /\ [][BuilderNext]_vars

\* ------------------------------------------------------------------------
\* Reading the verifier's report
\* ------------------------------------------------------------------------

HasSection(step) == \E k \in 1..Len(report) : report[k].step = step

SectionOf(step) == report[CHOOSE k \in 1..Len(report) : report[k].step = step]

Count(s, P(_)) == Cardinality({k \in 1..Len(s) : P(s[k])})

\* the character of the diagram at a cell, blank past the end of its line
CellAt(row, col) ==
    IF col <= Len(lines[row]) THEN lines[row][col] ELSE " "

InGrid(row, col) ==
    /\ 1 <= row /\ row <= Len(lines)
    /\ 1 <= col /\ col <= MaxLen(lines)

\* a cell the structural classifier lets through as a vertical connector
Accepted(row, col) ==
    \/ CellAt(row, col) = "|"
    \/ /\ CellAt(row, col) \in {"^", "v"}
       /\ is_structural(CellAt(row, col), row, col, PadLines(lines), MaxLen(lines))

DirRow(row, d) == IF d = "above" THEN row - 1 ELSE row + 1

\* ------------------------------------------------------------------------
\* C1
\* ------------------------------------------------------------------------

\* C1: once the junction audit has run, every cell holding '|' or an accepted
\* '^'/'v' has, for each of above/below, exactly one issue when the cell in
\* that direction is inside the grid and holds '-', and none otherwise (a '+',
\* any other character, or a row outside the grid); no other issue is listed,
\* and each issue names its cell's line, column and character.
C1_JunctionIssues ==
    HasSection("Junction") =>
        LET iss == SectionOf("Junction").issues
        IN  /\ \A row \in 1..Len(lines), col \in 1..MaxLen(lines),
                  d \in {"above", "below"} :
                  Count(iss, LAMBDA e : e.line = row /\ e.col = col /\ e.direction = d)
                    = IF /\ Accepted(row, col)
                         /\ InGrid(DirRow(row, d), col)
                         /\ CellAt(DirRow(row, d), col) = "-"
                      THEN 1 ELSE 0
            /\ \A k \in 1..Len(iss) :
                  /\ InGrid(iss[k].line, iss[k].col)
                  /\ iss[k].direction \in {"above", "below"}
                  /\ iss[k].ch = CellAt(iss[k].line, iss[k].col)
                  /\ iss[k].adjLine = DirRow(iss[k].line, iss[k].direction)

\* C1 witness: the box whose bottom border has '-' under the right-hand '|'
\* yields exactly one issue, naming line 2, column 4.
C1_Witness ==
    /\ lines = << <<"+","-","-","+">>, <<"|"," "," ","|">>, <<"+","-","-","-">> >>
    /\ HasSection("Junction")
    /\ SectionOf("Junction").issues =
           << [line |-> 2, col |-> 4, ch |-> "|", direction |-> "below", adjLine |-> 3] >>

\* ------------------------------------------------------------------------
\* C2
\* ------------------------------------------------------------------------

Pipes == {p \in (1..Len(lines)) \X (1..MaxLen(lines)) : CellAt(p[1], p[2]) = "|"}

\* a diagram of closed boxes: it has '|' side characters, no '^'/'v', and every
\* '|' has '+' directly above and '+' directly below
ClosedBoxes ==
    /\ Pipes # {}
    /\ \A row \in 1..Len(lines), col \in 1..MaxLen(lines) :
           CellAt(row, col) \notin {"^", "v"}
    /\ \A p \in Pipes :
           /\ InGrid(p[1] - 1, p[2]) /\ CellAt(p[1] - 1, p[2]) = "+"
           /\ InGrid(p[1] + 1, p[2]) /\ CellAt(p[1] + 1, p[2]) = "+"

\* C2 as stated: on closed boxes the verified-junction count equals the number
\* of '|' characters, and no issue is listed.
C2_CountIsPipes ==
    (HasSection("Junction") /\ ClosedBoxes) =>
        /\ SectionOf("Junction").count = Cardinality(Pipes)
        /\ SectionOf("Junction").issues = <<>>

\* C2 amended: on closed boxes the verified-junction count is twice the number
\* of '|' characters (one for the '+' above and one for the '+' below each),
\* and no issue is listed.
C2_CountIsTwicePipes ==
    (HasSection("Junction") /\ ClosedBoxes) =>
        /\ SectionOf("Junction").count = 2 * Cardinality(Pipes)
        /\ SectionOf("Junction").issues = <<>>

\* C2 witness: the three-line box is audited with count 4 and no issue.
C2_Witness ==
    /\ lines = << <<"+","-","-","+">>, <<"|"," "," ","|">>, <<"+","-","-","+">> >>
    /\ HasSection("Junction")
    /\ SectionOf("Junction").count = 4
    /\ SectionOf("Junction").issues = <<>>

\* ------------------------------------------------------------------------
\* C3
\* ------------------------------------------------------------------------

IsLetterAt(row, col) == InGrid(row, col) /\ IsAlpha(CellAt(row, col))

\* length of the contiguous run of letters that ends at column col - 1
RunLeft(row, col) ==
    Cardinality({k \in 1..(col - 1) : \A j \in k..(col - 1) : IsLetterAt(row, j)})

\* length of the contiguous run of letters that starts at column col + 1
RunRight(row, col) ==
    Cardinality({k \in (col + 1)..MaxLen(lines) :
                    \A j \in (col + 1)..k : IsLetterAt(row, j)})

\* the classification C3 states
ClaimStructural(row, col) ==
    IF CellAt(row, col) = "|" THEN TRUE
    ELSE IF IsLetterAt(row, col - 1) /\ IsLetterAt(row, col + 1) THEN FALSE
    ELSE IF IsLetterAt(row, col - 1) THEN ~(RunLeft(row, col) >= 2)
    ELSE IF IsLetterAt(row, col + 1) THEN ~(RunRight(row, col) >= 2)
    ELSE TRUE

Touches(row, col, S) ==
    \E p \in {<<row - 1, col>>, <<row + 1, col>>, <<row, col - 1>>, <<row, col + 1>>} :
        InGrid(p[1], p[2]) /\ CellAt(p[1], p[2]) \in S

Server == <<"S","e","r","v","e","r">>

InRun(line, a, b) == \A j \in a..b : line[j] \in {"+", "-"}

\* columns s..e of the line are a border: '+', one or more '-'/'+', '+', as the
\* leftmost-longest match takes it (no '+' of the same run lies outside it)
IsBorder(line, s, e) ==
    /\ 1 <= s /\ s + 2 <= e /\ e <= Len(line)
    /\ line[s] = "+" /\ line[e] = "+"
    /\ InRun(line, s, e)
    /\ \A j \in 1..(s - 1) : InRun(line, j, s) => line[j] # "+"
    /\ \A j \in (e + 1)..Len(line) : InRun(line, e, j) => line[j] # "+"

\* the borders of one line: <<line, start column, width>>
BordersOf(r) ==
    {<<r, p[1], p[2] - p[1] + 1>> :
        p \in {p \in (1..Len(lines[r])) \X (1..Len(lines[r])) :
                  IsBorder(lines[r], p[1], p[2])}}

\* the borders of the diagram
Borders == UNION {BordersOf(r) : r \in 1..Len(lines)}

BordersAt(B, col) == {b \in B : b[2] = col}

Repeated(B, col, w) == Cardinality({b \in BordersAt(B, col) : b[3] = w}) >= 2

\* at least two distinct widths each occur two or more times at the column
Flagged(B, col) ==
    \E w1, w2 \in {b[3] : b \in BordersAt(B, col)} :
        w1 # w2 /\ Repeated(B, col, w1) /\ Repeated(B, col, w2)

WidthIssuesOf(iss) == SelectSeq(iss, LAMBDA e : e.kind = "width")

PaddingIssuesOf(iss) == SelectSeq(iss, LAMBDA e : e.kind = "padding")

\* the issue lists every border of its column, once each, top to bottom
ListsGroup(B, e) ==
    /\ Len(e.entries) = Cardinality(BordersAt(B, e.col))
    /\ \A k \in 1..Len(e.entries) :
          <<e.entries[k].line, e.col, e.entries[k].width>> \in B
    /\ \A k \in 1..(Len(e.entries) - 1) : e.entries[k].line < e.entries[k + 1].line

\* C4: once the box check has run, a start column has a width-mismatch issue
\* if and only if at least two distinct widths each occur two or more times
\* among the borders starting there; it then has exactly one, which lists
\* every border of the column; and the borders found are the matches of
\* '+', one or more '-'/'+', '+'.
C4_WidthMismatch ==
    HasSection("Box") =>
        \A B \in {Borders}, wi \in {WidthIssuesOf(SectionOf("Box").issues)} :
            /\ \A col \in 1..MaxLen(lines) :
                  Count(wi, LAMBDA e : e.col = col) = IF Flagged(B, col) THEN 1 ELSE 0
            /\ \A k \in 1..Len(wi) : InGrid(1, wi[k].col) /\ ListsGroup(B, wi[k])
            /\ SectionOf("Box").count = Cardinality(B)

\* C4 witness: widths 8,8,6,6 at column 1 give one issue listing all four.
C4_Witness ==
    /\ HasSection("Box")
    /\ [k \in 1..Len(lines) |-> Len(lines[k])] = <<8, 8, 6, 6>>
    /\ SectionOf("Box").issues =
          << [kind |-> "width", col |-> 1,
              entries |-> << [line |-> 1, width |-> 8], [line |-> 2, width |-> 8],
                             [line |-> 3, width |-> 6], [line |-> 4, width |-> 6] >>] >>

\* ------------------------------------------------------------------------
\* C5
\* ------------------------------------------------------------------------

\* a cell the arrow check examines
ArrowCandidate(row, col) ==
    \/ CellAt(row, col) \in {"<", ">"}
    \/ /\ CellAt(row, col) \in {"^", "v"}
       /\ is_structural(CellAt(row, col), row, col, PadLines(lines), MaxLen(lines))

\* C5: once the arrow check has run, every '<'/'>' cell and every accepted
\* '^'/'v' cell has exactly one floating-arrow issue if none of its orthogonal
\* neighbours inside the padded grid is one of + - | ^ v < >, and none
\* otherwise; no other cell has an issue.
C5_FloatingArrows ==
    HasSection("Arrow") =>
        LET iss == SectionOf("Arrow").issues
        IN  /\ \A row \in 1..Len(lines), col \in 1..MaxLen(lines) :
                  Count(iss, LAMBDA e : e.line = row /\ e.col = col)
                    = IF /\ ArrowCandidate(row, col)
                         /\ ~Touches(row, col, {"+", "-", "|", "^", "v", "<", ">"})
                      THEN 1 ELSE 0
            /\ \A k \in 1..Len(iss) :
                  /\ InGrid(iss[k].line, iss[k].col)
                  /\ iss[k].ch = CellAt(iss[k].line, iss[k].col)

\* C5 witness: the 'v' of the last line, directly below a '|', is connected
\* (as are the '^' under a '|' and the '<' over a '|'), while the 'v' of the
\* first line, with blanks on every side, is reported once.
C5_Witness ==
    /\ lines = << <<" ","v"," ","<">>, <<"|"," ","|","|">>, <<"^","-","v">> >>
    /\ HasSection("Arrow")
    /\ SectionOf("Arrow").issues = << [line |-> 1, col |-> 2, ch |-> "v"] >>

\* ------------------------------------------------------------------------
\* C6
\* ------------------------------------------------------------------------

CheckOrder == <<"Unicode", "Junction", "Box", "Arrow", "Result">>

\* the sections are printed in the fixed order, each step after the one before
ReportsInOrder ==
    /\ Len(report) <= Len(CheckOrder)
    /\ \A k \in 1..Len(report) : report[k].step = CheckOrder[k]

\* the line an issue is for: a width-mismatch issue names several lines, and
\* the first of them (the earliest) stands for it
IssueLine(e) ==
    IF "entries" \in DOMAIN e THEN e.entries[1].line ELSE e.line

\* no issue for a later line before one for an earlier line, and on one line
\* none at a larger column before one at a smaller column
RowMajor(iss) ==
    \A i, j \in 1..Len(iss) :
        i < j => \/ IssueLine(iss[i]) < IssueLine(iss[j])
                 \/ /\ IssueLine(iss[i]) = IssueLine(iss[j])
                    /\ iss[i].col <= iss[j].col

\* C6 as stated: the checks report in the fixed order, and within each of
\* them, the box check included, the issues are in row-major order.
C6_AllRowMajor ==
    /\ ReportsInOrder
    /\ \A k \in 1..Len(report) : RowMajor(report[k].issues)

\* C6 amended: the checks report in the fixed order; the Unicode, junction and
\* arrow issues are in row-major order; the box check lists its width-mismatch
\* issues first, by ascending start column, and after them its label-padding
\* issues in row-major order.
C6_OrderedReport ==
    /\ ReportsInOrder
    /\ \A k \in 1..Len(report) :
          IF report[k].step = "Box"
          THEN LET w == WidthIssuesOf(report[k].issues)
                   p == PaddingIssuesOf(report[k].issues)
               IN  /\ report[k].issues = w \o p
                   /\ \A i \in 1..(Len(w) - 1) : w[i].col < w[i + 1].col
                   /\ RowMajor(p)
          ELSE RowMajor(report[k].issues)

\* C6 witness: a finished run whose box check lists a width mismatch of lines
\* 2..5 before the label-padding issue of line 1.
C6_Witness ==
    /\ pc = "exit"
    /\ Len(report) = 5
    /\ Len(report[3].issues) = 2
    /\ report[3].issues[1].kind = "width"
    /\ report[3].issues[1].entries[1].line = 2
    /\ report[3].issues[2] = [kind |-> "padding", line |-> 1, col |-> 1]

\* ------------------------------------------------------------------------
\* C7
\* ------------------------------------------------------------------------

\* the cell a call leaves at column i, given the cell it found there
CellAfter(c, i) ==
    IF c.op = "put"
    THEN IF 1 <= i - c.col + 1 /\ i - c.col + 1 <= Len(c.text)
         THEN c.text[i - c.col + 1] ELSE c.before[i]
    ELSE IF c.op = "fill"
    THEN IF c.col <= i /\ i <= c.col2 THEN c.text[1] ELSE c.before[i]
    ELSE IF i = c.col2 THEN "+"
    ELSE IF c.col < i /\ i < c.col2 THEN "-"
    ELSE IF i = c.col THEN "+"
    ELSE c.before[i]

\* C7: after every put, fill or hline call, whatever its columns and text, the
\* buffer has exactly GridWidth cells, and each cell holds the character the
\* call aimed at its column, or, if none was aimed there, what it held before;
\* characters aimed at columns outside 1..GridWidth are dropped.
C7_WidthFixed ==
    /\ buf # None
    /\ Len(buf[1]) = GridWidth
    /\ DOMAIN buf[1] = 1..GridWidth
    /\ hist # <<>> =>
          /\ Len(hist[1].before) = GridWidth
          /\ \A i \in 1..GridWidth : buf[1][i] = CellAfter(hist[1], i)

\* C7 witness: text put at the last column is cut at the right edge, after a
\* put at column GridWidth + 1 changed nothing.
C7_Witness ==
    /\ hist # <<>>
    /\ hist[1].op = "put"
    /\ hist[1].col = GridWidth
    /\ hist[1].text = <<"a", "b">>
    /\ hist[1].before = Grid_line(GridWidth)
    /\ buf = << [i \in 1..GridWidth |-> IF i = GridWidth THEN "a" ELSE " "] >>

\* ------------------------------------------------------------------------
\* C9
\* ------------------------------------------------------------------------

\* the row the claim describes: '|', one space, the label, spaces up to
\* width - 2 characters, '|'
LabelRow(lbl, width) ==
    <<"|">> \o <<" ">> \o lbl \o Repeat(" ", width - 2 - 1 - Len(lbl)) \o <<"|">>

\* C9 as stated: for every label and every width >= 2 the result has length
\* width, starts and ends with '|', and holds a space, the label and padding.
C9_LengthIsWidth ==
    \A k \in 1..Len(label) :
        label[k].width >= 2 =>
            /\ Len(label[k].result) = label[k].width
            /\ label[k].result = LabelRow(label[k].label, label[k].width)

\* C9 amended: when the label fits (len(label) + 3 <= width) the result has
\* length width and is '|', a space, the label, spaces up to width - 2
\* characters, '|'; when it does not fit, the result is '| ' + label + '|', of
\* length len(label) + 3, which is longer than width.
C9_LengthWhenFits ==
    \A k \in 1..Len(label) :
        LET c == label[k]
        IN  IF Len(c.label) + 3 <= c.width
            THEN /\ Len(c.result) = c.width
                 /\ c.result = LabelRow(c.label, c.width)
                 /\ c.result[1] = "|" /\ c.result[c.width] = "|"
            ELSE /\ c.result = <<"|", " ">> \o c.label \o <<"|">>
                 /\ Len(c.result) = Len(c.label) + 3
                 /\ Len(c.result) > c.width

\* C9 witness: box_label_str("ab", 6) has returned "| ab |".
C9_Witness ==
    /\ label # <<>>
    /\ label[1].label = <<"a", "b">>
    /\ label[1].width = 6
    /\ label[1].result = <<"|", " ", "a", "b", " ", "|">>

\* ------------------------------------------------------------------------
\* C10
\* ------------------------------------------------------------------------

IsPlacement(c) == ~IsSkipped(c) /\ CmdWord(c) \in {W_put, W_fill, W_hline, W_box}

IsEmit(c) == ~IsSkipped(c) /\ CmdWord(c) = W_emit

IsNewLine(c) == ~IsSkipped(c) /\ CmdWord(c) = W_line

\* the position of the most recent 'line' or 'emit' among the first n
\* commands, 0 if there is none
LastReset(n) ==
    LET R == {k \in 1..n : IsNewLine(hist[k]) \/ IsEmit(hist[k])}
    IN  IF R = {} THEN 0 ELSE CHOOSE k \in R : \A j \in R : j <= k

\* a current buffer exists after the first n commands: the most recent reset
\* is a 'line', or a placement command has come since it
BufferExists(n) ==
    \/ LastReset(n) > 0 /\ IsNewLine(hist[LastReset(n)])
    \/ \E k \in (LastReset(n) + 1)..n : IsPlacement(hist[k])

\* one placement command applied to a buffer
Place(b, c) ==
    IF CmdWord(c) = W_put THEN put(GridWidth, b, c.col, c.text)
    ELSE IF CmdWord(c) = W_fill
         THEN fill(GridWidth, b, c.col, c.col2, IF Len(c.text) > 0 THEN c.text[1] ELSE "-")
    ELSE IF CmdWord(c) = W_hline THEN hline(GridWidth, b, c.col, c.col2)
    ELSE put(GridWidth, b, c.col, box_str(c.text))

\* the placement commands among commands from..to, applied in order
RECURSIVE Replay(_, _, _)
Replay(b, from, to) ==
    IF from > to THEN b
    ELSE Replay(IF IsPlacement(hist[from]) THEN Place(b, hist[from]) ELSE b,
                from + 1, to)

\* the buffer after the first n commands, built from a blank one by the
\* placement commands since the most recent 'line' or 'emit' only
BufferAfter(n) == Replay(Grid_line(GridWidth), LastReset(n) + 1, n)

\* what the k-th command prints
Printed(k) ==
    LET c == hist[k]
    IN  IF IsSkipped(c) THEN <<>>
        ELSE IF IsEmit(c)
             THEN IF BufferExists(k - 1) THEN << Rstrip(BufferAfter(k - 1)) >> ELSE <<>>
        ELSE IF CmdWord(c) = W_ruler THEN ruler(GridWidth)
        ELSE IF CmdWord(c) \in {W_blank, W_dashes} THEN << <<>> >>
        ELSE <<>>

\* C10: after any sequence of commands, the output is what the commands print
\* one after the other, where 'emit' prints one line exactly when a current
\* buffer exists, that line being the right-trimmed buffer built from a blank
\* one by the placement commands since the most recent 'line' or 'emit'; the
\* current buffer is absent right after an 'emit' (and at the start) and is
\* otherwise that freshly built buffer; an unrecognised command adds nothing
\* to buffer or output, only a warning, and the commands after it still act.
C10_Interpreter ==
    /\ out = Flatten([k \in 1..Len(hist) |-> Printed(k)])
    /\ IF BufferExists(Len(hist))
       THEN buf = << BufferAfter(Len(hist)) >>
       ELSE buf = None
    /\ Len(errs) = Cardinality({k \in 1..Len(hist) :
                       ~IsSkipped(hist[k]) /\ CmdWord(hist[k]) \notin KnownWords})

\* C10 witness: put, an unrecognised command, emit, emit: the first emit has
\* printed the put's line, the second nothing, and no buffer is left.
C10_Witness ==
    /\ Len(hist) = 4
    /\ hist[1] = Cmd(W_put, 1, 0, <<"a", "b">>)
    /\ CmdWord(hist[2]) \notin KnownWords
    /\ IsEmit(hist[3]) /\ IsEmit(hist[4])
    /\ out = << <<"a", "b">> >>
    /\ Len(errs) = 1
    /\ buf = None

\* ------------------------------------------------------------------------
\* C8
\* ------------------------------------------------------------------------

\* the closed fenced blocks of the document, in order
ClosedBlocks == ExtractBlocks(stdin, None)

\* main() has read a document that has content, with --block and no --extract
BlockSelected ==
    /\ pc # "start"
    /\ args.extract = None /\ args.block # None
    /\ ~IsBlankText(stdin)

NoContentExit ==
    /\ pc = "exit"
    /\ exit_code = <<1>>
    /\ report = <<>>
    /\ stderr # <<>>
    /\ stderr[Len(stderr)].msg = "Error: no diagram content found"

\* C8 as stated, for a document that is not blank and has k closed blocks:
\* with --block N and no heading selector, N in 1..k hands on
\* exactly the N-th block's inner lines (the diagram checked is that block),
\* and any N outside 1..k reports "block not found", yields empty content, and
\* the verifier exits with status 1 without running any check.
C8_BlockSelection ==
    BlockSelected =>
        IF 1 <= args.block[1] /\ args.block[1] <= Len(ClosedBlocks)
        THEN /\ stderr = <<>> \/ NoContentExit
             /\ IF IsBlankText(ClosedBlocks[args.block[1]])
                THEN NoContentExit
                ELSE lines = StripTrailingEmpty(ClosedBlocks[args.block[1]])
        ELSE /\ NoContentExit
             /\ stderr[1].msg = "Error: block not found"

\* the same with N = 0 left out: what the code does for every other N
C8_BlockSelectionNonZero ==
    (BlockSelected /\ args.block # <<0>>) => C8_BlockSelection

\* ------------------------------------------------------------------------
\* C11
\* ------------------------------------------------------------------------

\* main() has read the document, with --extract and no --block
HeadingSelected ==
    /\ pc # "start"
    /\ args.extract # None /\ args.extract # << <<>> >>
    /\ args.block = None

\* the line starts with '#' and holds the heading, letter case aside
HoldsHeading(line) ==
    /\ line # <<>> /\ line[1] = "#"
    /\ \E k \in 1..Len(line) :
          /\ k + Len(args.extract[1]) - 1 <= Len(line)
          /\ \A j \in 1..Len(args.extract[1]) :
                LowerChar(line[k + j - 1]) = LowerChar(args.extract[1][j])

\* the least element of a set of line numbers, 0 for the empty set
Least(S) == IF S = {} THEN 0 ELSE CHOOSE i \in S : \A j \in S : i <= j

\* the fence lines of the document after line i
FencesAfter(i) == {f \in (i + 1)..Len(stdin) : IsFence(stdin[f])}

\* the first line that matches the heading, 0 when none does
HeadingLine == Least({i \in 1..Len(stdin) : HoldsHeading(stdin[i])})

\* the first fence after the heading line and the first fence after that one
\* (0 when missing): the first block that opens and closes after the heading
OpeningFence == IF HeadingLine = 0 THEN 0 ELSE Least(FencesAfter(HeadingLine))

ClosingFence == IF OpeningFence = 0 THEN 0 ELSE Least(FencesAfter(OpeningFence))

\* what C11 says extraction by heading returns: the inner text of that block,
\* or the whole input when there is no such block
HeadingResult ==
    IF ClosingFence = 0 THEN stdin
    ELSE IF ClosingFence = OpeningFence + 1 THEN << <<>> >>
    ELSE SubSeq(stdin, OpeningFence + 1, ClosingFence - 1)

\* C11: with a heading selector and no block ordinal, fences up to and
\* including the first line that starts with '#' and contains the heading
\* (case-insensitively) are ignored and extract_from_markdown returns the inner
\* text of the first fenced block that opens and closes after that line; when
\* no line matches or no block closes after the matching line it returns the
\* entire input unchanged, nothing is printed about a missing block, and the
\* verifier goes on with that text: it checks it, or exits with status 1 when
\* the text is blank.
C11_HeadingExtract ==
    HeadingSelected =>
        /\ extract_from_markdown(stdin, args.extract, args.block)
              = [text |-> HeadingResult, err |-> <<>>]
        /\ IF IsBlankText(HeadingResult)
           THEN NoContentExit /\ Len(stderr) = 1
           ELSE lines = StripTrailingEmpty(HeadingResult) /\ stderr = <<>>

\* C11 witness: the fence above the heading is ignored, the block after the
\* heading is extracted, and the run has checked exactly its inner line.
C11_Witness ==
    /\ stdin = <<FENCE, <<"#"," ","A","b">>, FENCE, <<"a","b">>, FENCE>>
    /\ args.extract = << <<"A","B">> >>
    /\ pc = "exit"
    /\ exit_code = <<0>>
    /\ lines = << <<"a","b">> >>
    /\ HeadingLine = 2 /\ OpeningFence = 3 /\ ClosingFence = 5

\* C11 witness of the fallback: the only fence after the heading is never
\* closed, and the run has checked the whole document.
C11_WitnessWhole ==
    /\ stdin = <<FENCE, <<>>, FENCE, <<"#"," ","A","b">>, FENCE>>
    /\ HeadingSelected
    /\ pc = "exit"
    /\ lines = stdin
    /\ OpeningFence = 5 /\ ClosingFence = 0

=============================================================================
